---- MODULE Spec2Model ----
(***************************************************************************)
(* Netlink message framing and decoding engine of netlink-rs               *)
(* (src/netlink-rs/src/socket/mod.rs): Payload, Msg, Socket::send,          *)
(* Socket::send_multi and Socket::recv, over the byte-exact wire format.    *)
(*                                                                         *)
(* Bytes are naturals 0..255 and a byte slice is a sequence of them.  The   *)
(* wire format is native-endian; it is modelled little-endian, as the       *)
(* test vectors of the source are.                                          *)
(***************************************************************************)
EXTENDS Integers, Sequences, FiniteSets, TLC

VARIABLES
    buf,      \* Socket.buf, the receiving session's reusable buffer: its bytes up to
              \* the last one ever written (the rest are the zeros of Socket::new)
    wire,     \* the datagram queued by the transport for the receiver, or NoDatagram
    nrecv,    \* number of recv calls made so far
    last,     \* what the last recv call returned (and what it walked)
    call,     \* codec specification: the function applied and its input
    ret       \* codec specification: what it returned

vars == <<buf, wire, nrecv, last, call, ret>>

(***************************************************************************)
(* Bounds of the model.                                                    *)
(***************************************************************************)
MaxData == 6        \* payload lengths 0..MaxData
MaxBody == 40       \* bytes following a raw header handed to Msg::from_bytes
MaxWalkMsgs == 3    \* wire messages concatenated in a walked buffer
MaxMulti == 2       \* Data messages in one send_multi call
MaxRecvs == 2       \* recv calls on the session

(***************************************************************************)
(* Program constants.                                                      *)
(***************************************************************************)
NLMSG_ALIGNTO == 4
BufSize == 4096
SizeofNlMsgHeader == 16
NLMSG_ERROR == 1
NLMSG_DONE == 2
NLM_F_REQUEST == 1
NLM_F_MULTI == 2
NLM_F_DUMP == 768

(***************************************************************************)
(* Native-endian integer encodings (byteorder's write_u32 / read_i32 ...).  *)
(***************************************************************************)
WriteU16(v) == << v % 256, (v \div 256) % 256 >>

\* the four bytes of a 32-bit value, two's complement when it is negative
WriteI32(v) ==
    IF v >= 0
    THEN << v % 256, (v \div 256) % 256, (v \div 65536) % 256, (v \div 16777216) % 256 >>
    ELSE LET w == v + 2147483647 + 1   \* v + 2^31, in 0 .. 2^31 - 1
         IN << w % 256, (w \div 256) % 256, (w \div 65536) % 256,
               ((w \div 16777216) % 128) + 128 >>

ReadU16(b, i) == b[i] + 256 * b[i + 1]

ReadI32(b, i) ==
    b[i] + 256 * b[i + 1] + 65536 * b[i + 2]
        + 16777216 * (IF b[i + 3] < 128 THEN b[i + 3] ELSE b[i + 3] - 256)

\* A u32 is held as its 32 bits read in two's complement: u below 2^31 as u,
\* u from 2^31 on as u - 2^32 (TLC's integers are 32 bits wide).
WriteU32(v) == WriteI32(v)

ReadU32(b, i) == ReadI32(b, i)

\* u32 as usize.  A value from 2^31 on is given as 2^31 - 1: like the value
\* itself it exceeds every slice length of the model, and it is only compared
\* with slice lengths.
AsUsize(v) == IF v < 0 THEN 2147483647 ELSE v

RECURSIVE BitOr(_, _)
BitOr(a, b) ==
    IF a = 0 THEN b
    ELSE IF b = 0 THEN a
    ELSE (IF a % 2 = 1 \/ b % 2 = 1 THEN 1 ELSE 0) + 2 * BitOr(a \div 2, b \div 2)

\* &bytes[from..to] with 0-based half-open bounds
Slice(bytes, from, to) == SubSeq(bytes, from + 1, to)

(***************************************************************************)
(* Length arithmetic.                                                      *)
(***************************************************************************)
\* (len + (NLMSG_ALIGNTO - 1)) & !(NLMSG_ALIGNTO - 1): NLMSG_ALIGNTO is a power
\* of two, so clearing the low bits subtracts the remainder.
nlmsg_align(len) ==
    LET x == len + (NLMSG_ALIGNTO - 1) IN x - (x % NLMSG_ALIGNTO)

nlmsg_header_length == nlmsg_align(SizeofNlMsgHeader)

nlmsg_length(len) == len + nlmsg_align(nlmsg_header_length)

(***************************************************************************)
(* Header codec (NlMsgHeader).                                             *)
(***************************************************************************)
NoHdr == [msg_length |-> 0, nl_type |-> 0, flags |-> 0, seq |-> 0, pid |-> 0]

request ==
    [msg_length |-> nlmsg_header_length, nl_type |-> 0, flags |-> NLM_F_REQUEST,
     seq |-> 0, pid |-> 0]

done ==
    [msg_length |-> nlmsg_header_length, nl_type |-> NLMSG_DONE, flags |-> 0,
     seq |-> 0, pid |-> 0]

error ==
    [msg_length |-> nlmsg_length(nlmsg_header_length + 4), nl_type |-> NLMSG_ERROR,
     flags |-> 0, seq |-> 0, pid |-> 0]

data_length(h, len) == [h EXCEPT !.msg_length = nlmsg_length(len)]

multipart(h) == [h EXCEPT !.flags = BitOr(h.flags, NLM_F_MULTI)]

dump(h) == [h EXCEPT !.flags = BitOr(h.flags, NLM_F_DUMP)]

seq(h, n) == [h EXCEPT !.seq = n]

pid(h, n) == [h EXCEPT !.pid = n]

msg_length(h) == h.msg_length

msg_type(h) ==
    IF h.nl_type = NLMSG_ERROR THEN "Error"
    ELSE IF h.nl_type = NLMSG_DONE THEN "Done"
    ELSE "Request"

HdrBytes(h) ==
    WriteU32(h.msg_length) \o WriteU16(h.nl_type) \o WriteU16(h.flags)
        \o WriteU32(h.seq) \o WriteU32(h.pid)

HdrFromBytes(bytes) ==
    IF Len(bytes) < SizeofNlMsgHeader
    THEN [ok |-> FALSE, err |-> "failed to fill whole buffer", hdr |-> NoHdr, n |-> 0]
    ELSE [ok |-> TRUE, err |-> "",
          hdr |-> [msg_length |-> ReadU32(bytes, 1), nl_type |-> ReadU16(bytes, 5),
                   flags |-> ReadU16(bytes, 7), seq |-> ReadU32(bytes, 9),
                   pid |-> ReadU32(bytes, 13)],
          n |-> SizeofNlMsgHeader]

(***************************************************************************)
(* Payload.                                                                *)
(***************************************************************************)
PNone == [kind |-> "None", data |-> <<>>, code |-> 0, hdr |-> NoHdr]

PData(b) == [kind |-> "Data", data |-> b, code |-> 0, hdr |-> NoHdr]

PAck(h) == [kind |-> "Ack", data |-> <<>>, code |-> 0, hdr |-> h]

PErr(c, h) == [kind |-> "Err", data |-> <<>>, code |-> c, hdr |-> h]

PayloadFail(e) == [ok |-> FALSE, err |-> e, payload |-> PNone, n |-> 0]

PayloadDataWholeSlice(bytes, len) ==
    IF Len(bytes) < len
    THEN PayloadFail("length of bytes too small")
    ELSE [ok |-> TRUE, err |-> "", payload |-> PData(bytes), n |-> len]

\* Payload::data
PayloadData(bytes, len) ==
    IF Len(bytes) < len
    THEN PayloadFail("length of bytes too small")
    ELSE [ok |-> TRUE, err |-> "", payload |-> PData(Slice(bytes, 0, len)), n |-> len]

PayloadErrAlwaysErr(bytes) ==
    IF Len(bytes) < 4 THEN PayloadFail("failed to fill whole buffer")
    ELSE LET r == HdrFromBytes(Slice(bytes, 4, Len(bytes)))
         IN IF ~r.ok THEN PayloadFail(r.err)
            ELSE [ok |-> TRUE, err |-> "",
                  payload |-> PErr(ReadI32(bytes, 1), r.hdr), n |-> 4 + r.n]

\* Payload::nlmsg_error
nlmsg_error(bytes) ==
    IF Len(bytes) < 4 THEN PayloadFail("failed to fill whole buffer")
    ELSE LET err == ReadI32(bytes, 1)
             n == 4
             r == HdrFromBytes(Slice(bytes, n, Len(bytes)))
             num == n + r.n
         IN IF ~r.ok THEN PayloadFail(r.err)
            ELSE IF err = 0
                 THEN [ok |-> TRUE, err |-> "", payload |-> PAck(r.hdr), n |-> num]
                 ELSE [ok |-> TRUE, err |-> "", payload |-> PErr(err, r.hdr), n |-> num]

\* Payload::bytes
PayloadBytes(p) ==
    CASE p.kind = "None" -> <<>>
      [] p.kind = "Data" -> p.data
      [] p.kind = "Ack" -> WriteU32(0) \o HdrBytes(p.hdr)
      [] p.kind = "Err" -> WriteI32(p.code) \o HdrBytes(p.hdr)

(***************************************************************************)
(* Message codec (Msg).                                                    *)
(***************************************************************************)
Msg(hdr, payload) == [header |-> hdr, payload |-> payload]

NoMsg == Msg(NoHdr, PNone)

MsgFail(e, stage) ==
    [ok |-> FALSE, err |-> e, msg |-> NoMsg, n |-> 0, stage |-> stage, panic |-> FALSE]

\* a slice index out of range or an arithmetic underflow aborts the call
MsgPanic(stage) ==
    [ok |-> FALSE, err |-> "panic", msg |-> NoMsg, n |-> 0, stage |-> stage, panic |-> TRUE]

RangeCheckNoUpper(n, end, len) == n <= end

RangeCheckNoLower(n, end, len) == end <= len

\* the range check of Msg::from_bytes: n <= end && end <= bytes.len()
RangeCheck(n, end, len) == n <= end /\ end <= len

\* the Ok((Msg { header, payload }, n + n2)) of Msg::from_bytes, or the `?` on
\* the payload decoder's error
MsgResult(hdr, n, p) ==
    IF ~p.ok THEN MsgFail(p.err, "payload")
    ELSE [ok |-> TRUE, err |-> "", msg |-> Msg(hdr, p.payload), n |-> n + p.n,
          stage |-> "ok", panic |-> FALSE]

DecodePayloadAligned(hdr, bytes, n, end) ==
    CASE msg_type(hdr) = "Done" -> [ok |-> TRUE, err |-> "", payload |-> PNone, n |-> 0]
      [] msg_type(hdr) = "Error" -> nlmsg_error(Slice(bytes, n, end))
      [] OTHER ->
            LET msg_len == AsUsize(msg_length(hdr)) - nlmsg_header_length
                r == PayloadData(Slice(bytes, n, Len(bytes)), msg_len)
            IN  [r EXCEPT !.n = nlmsg_align(r.n)]

\* the match on hdr.msg_type() of Msg::from_bytes; reached only when no slice
\* bound or subtraction of it is out of range
DecodePayload(hdr, bytes, n, end) ==
    CASE msg_type(hdr) = "Done" -> [ok |-> TRUE, err |-> "", payload |-> PNone, n |-> 0]
      [] msg_type(hdr) = "Error" -> nlmsg_error(Slice(bytes, n, end))
      [] OTHER ->
            LET msg_len == AsUsize(msg_length(hdr)) - nlmsg_header_length
            IN  PayloadData(Slice(bytes, n, Len(bytes)), msg_len)

\* Msg::from_bytes, after the header was decoded: the range check, the match on
\* the message type and the result
MsgFromHeader(bytes, hdr, n, end) ==
    IF ~RangeCheck(n, end, Len(bytes)) THEN MsgFail("invalid message length", "range")
    ELSE IF msg_type(hdr) = "Error" /\ (n > end \/ end > Len(bytes))
    THEN MsgPanic("payload")                 \* &bytes[n..end] out of range
    ELSE IF msg_type(hdr) = "Request"
            /\ (AsUsize(msg_length(hdr)) < nlmsg_header_length \/ n > Len(bytes))
    THEN MsgPanic("payload")                 \* usize underflow, &bytes[n..]
    ELSE MsgResult(hdr, n, DecodePayload(hdr, bytes, n, end))

MsgFromDecodedHeader(bytes, h) ==
    IF ~h.ok THEN MsgFail(h.err, "header")
    ELSE MsgFromHeader(bytes, h.hdr, h.n, AsUsize(msg_length(h.hdr)))

\* Msg::from_bytes
MsgFromBytes(bytes) == MsgFromDecodedHeader(bytes, HdrFromBytes(bytes))

MsgBytesSetsLength(m) ==
    LET payload == PayloadBytes(m.payload)
    IN  HdrBytes([m.header EXCEPT !.msg_length = nlmsg_length(Len(payload))]) \o payload

\* Msg::bytes
MsgBytes(m) == HdrBytes(m.header) \o PayloadBytes(m.payload)

(***************************************************************************)
(* Buffer walker: the while-let loop of Socket::recv.                      *)
(***************************************************************************)
Span(n, r) == [start |-> n, end |-> n + r.n, header |-> r.msg.header]

WalkEnd(messages, spans, n, stop) ==
    [messages |-> messages, spans |-> spans, n |-> n, stop |-> stop]

RECURSIVE WalkFrom(_, _, _, _)
WalkStepNoBreak(buffer, n, messages, spans, r) ==
    IF r.panic THEN WalkEnd(messages, spans, n, "panic")
    ELSE IF ~r.ok THEN WalkEnd(messages, spans, n, "fail")
    ELSE WalkFrom(buffer, n + r.n, Append(messages, r.msg), Append(spans, Span(n, r)))

\* one turn of the loop, given what Msg::from_bytes(&buffer[n..]) returned
WalkStep(buffer, n, messages, spans, r) ==
    IF r.panic THEN WalkEnd(messages, spans, n, "panic")
    ELSE IF ~r.ok THEN WalkEnd(messages, spans, n, "fail")
    ELSE IF msg_type(r.msg.header) = "Done"
         THEN WalkEnd(messages, Append(spans, Span(n, r)), n + r.n, "done")
         ELSE WalkFrom(buffer, n + r.n, Append(messages, r.msg), Append(spans, Span(n, r)))

WalkFrom(buffer, n, messages, spans) ==
    IF n > Len(buffer) THEN WalkEnd(messages, spans, n, "panic")   \* &buffer[n..]
    ELSE WalkStep(buffer, n, messages, spans, MsgFromBytes(Slice(buffer, n, Len(buffer))))

Walk(buffer) == WalkFrom(buffer, 0, <<>>, <<>>)

(***************************************************************************)
(* Socket session: send, send_multi, recv.                                 *)
(***************************************************************************)
Min(a, b) == IF a < b THEN a ELSE b

RECURSIVE ConcatBytes(_)
ConcatBytes(ms) ==
    IF ms = <<>> THEN <<>> ELSE MsgBytes(Head(ms)) \o ConcatBytes(Tail(ms))

NoDatagram == [present |-> FALSE, bytes |-> <<>>, family |-> "AF_NETLINK", sent |-> <<>>]

Datagram(bytes, family, sent) ==
    [present |-> TRUE, bytes |-> bytes, family |-> family, sent |-> sent]

NoRecv ==
    [called |-> FALSE, ok |-> FALSE, err |-> "", messages |-> <<>>, spans |-> <<>>,
     n |-> 0, stop |-> "", filled |-> 0, sent |-> <<>>, bytes |-> <<>>,
     family |-> ""]

Max(a, b) == IF a < b THEN b ELSE a

\* Socket::new: a buffer of 4096 zero bytes, none written yet
NewBuf == <<>>

\* the BufSize bytes of Socket.buf
BufBytes(written) == written \o [i \in 1..(BufSize - Len(written)) |-> 0]

\* SocketImpl::recvfrom_into: the datagram, cut to the buffer's size, is written
\* at the start of the buffer; the rest of the buffer is left as it was
RecvfromInto(buffer, bytes) ==
    [buffer |-> SubSeq(bytes, 1, Min(Len(bytes), Len(buffer)))
                    \o SubSeq(buffer, Min(Len(bytes), Len(buffer)) + 1, Len(buffer)),
     nbytes |-> Min(Len(bytes), Len(buffer))]

\* the slice Socket::recv walks: the whole buffer; the byte count that
\* recvfrom_into returned is dropped
RecvWalked(buffer, nbytes) == Walk(buffer)

RecvOkOnlyOnDone(w) == w.stop = "done"

\* the Ok((addr, messages)) that ends Socket::recv: the walk's end by a failed
\* decode is not an error
RecvOk(w) == w.stop # "panic"

\* Socket::send
Send(message) ==
    /\ ~wire.present
    /\ nrecv < MaxRecvs
    /\ wire' = Datagram(MsgBytes(message), "AF_NETLINK", <<message>>)
    /\ UNCHANGED <<buf, nrecv, last, call, ret>>

\* Socket::send_multi
SendMulti(messages) ==
    /\ ~wire.present
    /\ nrecv < MaxRecvs
    /\ wire' = Datagram(ConcatBytes(messages), "AF_NETLINK", messages)
    /\ UNCHANGED <<buf, nrecv, last, call, ret>>

\* a datagram from the kernel or from a process that does not use this library
PeerSend(bytes, family) ==
    /\ ~wire.present
    /\ nrecv < MaxRecvs
    /\ wire' = Datagram(bytes, family, <<>>)
    /\ UNCHANGED <<buf, nrecv, last, call, ret>>

\* Socket::recv
Recv ==
    /\ wire.present
    /\ \E got \in {RecvfromInto(BufBytes(buf), wire.bytes)} :
       \E w \in {RecvWalked(got.buffer, got.nbytes)} :
           /\ buf' = SubSeq(got.buffer, 1, Max(Len(buf), got.nbytes))
           /\ last' =
                IF wire.family # "AF_NETLINK"
                THEN [NoRecv EXCEPT !.called = TRUE, !.err = "unsupported address family",
                                    !.filled = got.nbytes, !.bytes = wire.bytes,
                                    !.family = wire.family]
                ELSE [called |-> TRUE, ok |-> RecvOk(w),
                      err |-> IF RecvOk(w) THEN "" ELSE "recv failed",
                      messages |-> w.messages, spans |-> w.spans, n |-> w.n,
                      stop |-> w.stop, filled |-> got.nbytes, sent |-> wire.sent,
                      bytes |-> wire.bytes, family |-> wire.family]
    /\ wire' = NoDatagram
    /\ nrecv' = nrecv + 1
    /\ UNCHANGED <<call, ret>>

(***************************************************************************)
(* Inputs of the socket specification.                                     *)
(***************************************************************************)
\* payload bytes [0, 1, ..., len - 1]
Pattern(len) == [i \in 1..len |-> i - 1]

DataMsg(len, s) == Msg(pid(seq(data_length(request, len), s), 102), PData(Pattern(len)))

DoneMsg == Msg(pid(done, 102), PNone)

ErrMsg == Msg(error, PErr(-2, data_length(request, 4)))

SockLens == {1, MaxData}

SendInputs == {DataMsg(len, 7) : len \in SockLens} \cup {DoneMsg, ErrMsg}

\* k multipart Data messages of varying lengths, numbered in send order
MultiData(k, len) ==
    [i \in 1..k |-> Msg(multipart(DataMsg((len + i - 1) % (MaxData + 1), i).header),
                        PData(Pattern((len + i - 1) % (MaxData + 1))))]

MultiTail(t) ==
    CASE t = "none" -> <<>>
      [] t = "done" -> <<DoneMsg>>
      [] t = "done+data" -> <<DoneMsg, DataMsg(2, 9)>>

MultiInputs ==
    { MultiData(k, len) \o MultiTail(t) :
        k \in 0..MaxMulti, len \in SockLens, t \in {"none", "done", "done+data"} }

RawHdr(len, type, s) ==
    [msg_length |-> len, nl_type |-> type, flags |-> 0, seq |-> s, pid |-> 0]

\* kernel error message that echoes 4 payload bytes of the failed request
ErrEcho ==
    HdrBytes(RawHdr(40, NLMSG_ERROR, 3)) \o WriteI32(-2) \o HdrBytes(data_length(request, 4))
        \o <<9, 9, 9, 9>>

PeerInputs ==
    { ErrEcho \o MsgBytes(DataMsg(1, 4)),
      HdrBytes(RawHdr(20, 0, 5)) \o <<7, 7>>,         \* cut short of its declared length
      HdrBytes(RawHdr(8, 0, 6)),                      \* shorter than its own header
      MsgBytes(DataMsg(1, 4)) \o MsgBytes(DataMsg(2, 5)) \o <<1, 2, 3, 4, 5>>,
      <<1, 2, 3, 4, 5>> }

Init ==
    /\ buf = NewBuf
    /\ wire = NoDatagram
    /\ nrecv = 0
    /\ last = NoRecv
    /\ call = [op |-> "none"]
    /\ ret = [op |-> "none"]

Next ==
    \/ \E message \in SendInputs : Send(message)
    \/ \E messages \in MultiInputs : SendMulti(messages)
    \/ \E bytes \in PeerInputs, family \in {"AF_NETLINK", "AF_UNSPEC"} : PeerSend(bytes, family)
    \/ Recv

Spec == Init /\ [][Next]_vars

(***************************************************************************)
(* Codec specification: the pure functions applied to bounded inputs, one   *)
(* call per behaviour.                                                     *)
(***************************************************************************)
Ctor(c) ==
    CASE c = "request" -> request
      [] c = "done" -> done
      [] c = "error" -> error

\* a header as a caller builds it: a named constructor, then the mutators;
\* dl = -1 when data_length is not called
Build(b) ==
    LET h0 == Ctor(b.ctor)
        h1 == IF b.dl >= 0 THEN data_length(h0, b.dl) ELSE h0
        h2 == IF b.multi THEN multipart(h1) ELSE h1
        h3 == IF b.dump THEN dump(h2) ELSE h2
    IN  pid(seq(h3, b.seq), b.pid)

Builds ==
    { [ctor |-> c, dl |-> dl, multi |-> mp, dump |-> dp, seq |-> sp[1], pid |-> sp[2]] :
        c \in {"request", "done", "error"}, dl \in -1..MaxData,
        mp \in BOOLEAN, dp \in BOOLEAN, sp \in {<<0, 0>>, <<1, 102>>, <<1, 9>>} }

EmbeddedHdr == dump(pid(seq(data_length(request, 4), 1), 9))

CodecPayloads ==
    {PNone, PAck(EmbeddedHdr), PErr(1, EmbeddedHdr), PErr(-2, EmbeddedHdr)}
        \cup {PData(Pattern(len)) : len \in 0..MaxData}

Extras == {<<>>, <<1, 1, 1, 1, 1, 1, 1>>, HdrBytes(done)}

ErrCodes == {0, 1, -1, -2, 2147483647, -2147483647 - 1}

BodyPattern(code) ==
    WriteI32(code) \o HdrBytes(EmbeddedHdr) \o HdrBytes(done) \o MsgBytes(DataMsg(MaxData, 1))

LenVals == {0, 15, 16, 17, 20, 35, 36, 37, 40, 56, 57, 2147483647, -1}

DecodeInputs ==
    { HdrBytes(RawHdr(len, type, 1)) \o SubSeq(BodyPattern(code), 1, k) :
        len \in LenVals, type \in {0, NLMSG_ERROR, NLMSG_DONE, 16},
        code \in {0, -2}, k \in 0..MaxBody }
    \cup { SubSeq(HdrBytes(request), 1, k) : k \in 0..(SizeofNlMsgHeader - 1) }

DoneLong == HdrBytes(RawHdr(20, NLMSG_DONE, 8)) \o <<0, 0, 0, 0>>

WireMsgs ==
    { MsgBytes(DataMsg(0, 1)), MsgBytes(DataMsg(3, 2)), MsgBytes(DoneMsg), DoneLong,
      MsgBytes(ErrMsg), ErrEcho, HdrBytes(RawHdr(8, 0, 6)),
      HdrBytes(RawHdr(20, 0, 5)) \o <<7, 7>> }

RECURSIVE Flatten(_)
Flatten(ss) == IF ss = <<>> THEN <<>> ELSE Head(ss) \o Flatten(Tail(ss))

WalkInputs == { Flatten(ss) : ss \in UNION { [1..k -> WireMsgs] : k \in 0..MaxWalkMsgs } }

\* Msg::new, Msg::bytes, then Msg::from_bytes on the bytes and what follows them
RoundTrip ==
    /\ call.op = "none"
    /\ \E b \in Builds, payload \in CodecPayloads, extra \in Extras :
        /\ call' = [op |-> "roundtrip", built |-> b, msg |-> Msg(Build(b), payload),
                    extra |-> extra]
        /\ ret' = [enc |-> MsgBytes(Msg(Build(b), payload)),
                   dec |-> MsgFromBytes(MsgBytes(Msg(Build(b), payload)) \o extra)]
    /\ UNCHANGED <<buf, wire, nrecv, last>>

\* Msg::from_bytes on a raw buffer
FromBytes ==
    /\ call.op = "none"
    /\ \E bytes \in DecodeInputs :
        /\ call' = [op |-> "from_bytes", bytes |-> bytes]
        /\ ret' = MsgFromBytes(bytes)
    /\ UNCHANGED <<buf, wire, nrecv, last>>

\* Payload::bytes, then Payload::nlmsg_error
PayloadRoundTrip ==
    /\ call.op = "none"
    /\ \E b \in Builds, c \in ErrCodes :
        \E payload \in {IF c = 0 /\ b.multi THEN PAck(Build(b)) ELSE PErr(c, Build(b))} :
            /\ call' = [op |-> "payload", payload |-> payload]
            /\ ret' = [enc |-> PayloadBytes(payload),
                       dec |-> nlmsg_error(PayloadBytes(payload))]
    /\ UNCHANGED <<buf, wire, nrecv, last>>

\* the walk of Socket::recv over a buffer
WalkBuffer ==
    /\ call.op = "none"
    /\ \E buffer \in WalkInputs :
        /\ call' = [op |-> "walk", buffer |-> buffer]
        /\ ret' = Walk(buffer)
    /\ UNCHANGED <<buf, wire, nrecv, last>>

CodecNext == RoundTrip \/ FromBytes \/ PayloadRoundTrip \/ WalkBuffer

CodecSpec == Init /\ [][CodecNext]_vars

(***************************************************************************)
(* Properties.                                                             *)
(***************************************************************************)
\* the length a header declares, as Msg::from_bytes reads it
Declared(h) == AsUsize(msg_length(h))

\* the number of bytes a payload variant is encoded in
PayloadLen(p) ==
    CASE p.kind = "None" -> 0
      [] p.kind = "Data" -> Len(p.data)
      [] OTHER -> 4 + nlmsg_header_length

C1_Case ==
    /\ call.op = "roundtrip"
    /\ call.built.ctor = "request"
    /\ call.msg.payload.kind = "Data"
    /\ call.built.dl = Len(call.msg.payload.data)

\* C1: for a header built with request() and data_length(L), whatever the other
\* mutators, and a payload Data(b) with len(b) = L, decoding the encoded message,
\* followed by any extra bytes, succeeds, returns the same header and Data(b) and
\* consumes the encoded size.
C1_DataRoundTrip ==
    C1_Case =>
        /\ ret.dec.ok
        /\ ret.dec.msg.header = call.msg.header
        /\ ret.dec.msg.payload = PData(call.msg.payload.data)
        /\ ret.dec.n = Len(ret.enc)

C1_Witness ==
    /\ C1_Case
    /\ call.extra # <<>>
    /\ call.msg.payload.data = <<0, 1, 2>>
    /\ ret.dec.ok
    /\ ret.dec.n = 19

IsData(m) ==
    /\ m.payload.kind = "Data"
    /\ msg_type(m.header) = "Request"
    /\ msg_length(m.header) = nlmsg_length(Len(m.payload.data))

IsDone(m) ==
    /\ m.payload.kind = "None"
    /\ msg_type(m.header) = "Done"
    /\ msg_length(m.header) = nlmsg_header_length

\* the datagram of the last recv was sent as k Data messages, each with its data
\* length set to its payload's length, then a Done message, then anything
C2_Case(k) ==
    /\ last.called
    /\ last.family = "AF_NETLINK"
    /\ k < Len(last.sent)
    /\ IsDone(last.sent[k + 1])
    /\ \A i \in 1..k : IsData(last.sent[i])

\* C2: when the received buffer holds k >= 0 concatenated Data messages, then a
\* Done message, then any further bytes, recv returns exactly the k messages in
\* send order, without the Done message, and its walk ends right after the Done
\* message.
C2_DoneEndsWalk ==
    \A k \in 0..Len(last.sent) :
        C2_Case(k) =>
            /\ last.ok
            /\ last.messages = SubSeq(last.sent, 1, k)
            /\ last.stop = "done"
            /\ Len(last.spans) = k + 1
            /\ last.n = Len(ConcatBytes(SubSeq(last.sent, 1, k + 1)))

C2_Witness ==
    /\ C2_Case(2)
    /\ Len(last.sent) = 4
    /\ nrecv = 2
    /\ Len(last.messages) = 2
    /\ last.messages[1] # last.messages[2]

\* C3: every message a recv call returns lies within the bytes of the datagram
\* that call received.
C3_RecvDecodesOnlyFilled ==
    (last.called /\ last.ok) =>
        \A i \in 1..Len(last.messages) : last.spans[i].end <= last.filled

\* C4: once the header is decoded, Msg::from_bytes fails with "invalid message
\* length", and returns no message, whenever the declared length is greater than
\* the slice's length or smaller than the header size; it goes on to the payload
\* only when header_consumed <= declared length <= bytes.len().
C4_BoundsRejection ==
    (call.op = "from_bytes" /\ HdrFromBytes(call.bytes).ok) =>
        LET h == HdrFromBytes(call.bytes)
            len == Declared(h.hdr)
        IN  /\ (len > Len(call.bytes) \/ len < nlmsg_header_length) =>
                    /\ ~ret.ok
                    /\ ret.err = "invalid message length"
                    /\ ret.stage = "range"
                    /\ ret.msg = NoMsg
            /\ ret.stage \in {"payload", "ok"} => (h.n <= len /\ len <= Len(call.bytes))

C4_Witness ==
    /\ call.op = "from_bytes"
    /\ HdrFromBytes(call.bytes).ok
    /\ Declared(HdrFromBytes(call.bytes).hdr) = Len(call.bytes) + 1
    /\ msg_type(HdrFromBytes(call.bytes).hdr) = "Request"
    /\ ret.err = "invalid message length"

\* C5: decoding the encoding of Err(c, h) gives Err(c, h) when c # 0 and Ack(h)
\* when c = 0, decoding the encoding of Ack(h) gives Ack(h), and the decoder
\* consumes 4 plus the header size, the whole encoded payload.
C5_ErrorPayloadRoundTrip ==
    call.op = "payload" =>
        /\ ret.dec.ok
        /\ ret.dec.n = 4 + nlmsg_header_length
        /\ ret.dec.n = Len(ret.enc)
        /\ ret.dec.payload =
              IF call.payload.kind = "Err" /\ call.payload.code # 0
              THEN PErr(call.payload.code, call.payload.hdr)
              ELSE PAck(call.payload.hdr)

C5_Witness ==
    /\ call.op = "payload"
    /\ call.payload.kind = "Err"
    /\ call.payload.code = 0
    /\ call.payload.hdr.pid = 9
    /\ ret.dec.payload = PAck(call.payload.hdr)

\* C6: once the sender's address is resolved, recv returns success; when a
\* decode fails, what it returns is exactly the messages decoded before that
\* failure, in order (none if the first decode fails).
C6_WalkSwallowsDecodeFailure ==
    (last.called /\ last.family = "AF_NETLINK") =>
        /\ last.ok
        /\ last.err = ""
        /\ last.stop = "fail" =>
              /\ ~MsgFromBytes(Slice(BufBytes(buf), last.n, BufSize)).ok
              /\ Len(last.messages) = Len(last.spans)
              /\ \A i \in 1..Len(last.spans) :
                    /\ last.spans[i].start = (IF i = 1 THEN 0 ELSE last.spans[i - 1].end)
                    /\ MsgFromBytes(Slice(BufBytes(buf), last.spans[i].start, BufSize)).ok
                    /\ MsgFromBytes(Slice(BufBytes(buf), last.spans[i].start, BufSize)).msg
                          = last.messages[i]

C6_Witness ==
    /\ last.called
    /\ last.family = "AF_NETLINK"
    /\ last.stop = "fail"
    /\ last.ok
    /\ Len(last.messages) = 2
    /\ last.n < last.filled

C7_Literal ==
    /\ call.op = "roundtrip"
    /\ call.msg = Msg(pid(seq(data_length(request, 6), 1), 102), PData(<<0, 1, 2, 3, 4, 5>>))

\* C7 as claimed: the literal message (data_length = 6, sequence = 1,
\* port_id = 102, payload [0,1,2,3,4,5]) decodes to the same header and payload
\* and the decode consumes 16 + align(6) bytes.
C7_ConsumesAligned ==
    C7_Literal =>
        /\ ret.dec.ok
        /\ ret.dec.msg = call.msg
        /\ ret.dec.n = 16 + nlmsg_align(6)

\* C7 as amended: the literal message decodes to the same header and payload and
\* the decode consumes 16 + 6 = 22 bytes, the encoded size.
C7_ConsumesUnaligned ==
    C7_Literal =>
        /\ ret.dec.ok
        /\ ret.dec.msg = call.msg
        /\ ret.dec.n = 16 + 6
        /\ ret.dec.n = Len(ret.enc)

C7_Witness ==
    /\ C7_Literal
    /\ call.extra = <<>>
    /\ ret.dec.ok
    /\ Len(ret.enc) = 22

\* C8 as claimed: the length field of every encoded message equals the number
\* of bytes Msg::bytes produced.
C8_LengthFieldIsEncodedSize ==
    call.op = "roundtrip" => AsUsize(ReadU32(ret.enc, 1)) = Len(ret.enc)

\* C8 as amended: Msg::bytes writes the length the header holds (header size
\* plus the data length the caller set), and produces the header and the
\* payload's bytes; the field equals the number of bytes produced exactly when
\* the held length is the header size plus the payload's encoded length.
C8_LengthFieldIsHeldLength ==
    call.op = "roundtrip" =>
        /\ ReadU32(ret.enc, 1) = msg_length(call.msg.header)
        /\ call.built.dl >= 0 => ReadU32(ret.enc, 1) = nlmsg_header_length + call.built.dl
        /\ Len(ret.enc) = nlmsg_header_length + PayloadLen(call.msg.payload)
        /\ (AsUsize(ReadU32(ret.enc, 1)) = Len(ret.enc))
              <=> (Declared(call.msg.header)
                      = nlmsg_header_length + PayloadLen(call.msg.payload))

C8_Witness ==
    /\ call.op = "roundtrip"
    /\ call.built.dl = 4
    /\ call.msg.payload = PData(<<0, 1, 2, 3, 4, 5>>)
    /\ ReadU32(ret.enc, 1) = 20
    /\ Len(ret.enc) = 22

\* C9: in the walk, the decode that follows a decoded message starts at that
\* message's start plus its declared length.
C9_WalkerLandsOnBoundaries ==
    call.op = "walk" =>
        \A i \in 1..Len(ret.spans) :
            (i < Len(ret.spans) \/ ret.stop = "fail") =>
                (IF i < Len(ret.spans) THEN ret.spans[i + 1].start ELSE ret.n)
                    = ret.spans[i].start + Declared(ret.spans[i].header)

\* C10: a successful Msg::from_bytes returns header size <= consumed <= declared
\* length <= slice length, and no slice bound or subtraction of it is out of
\* range; so the walk's offset strictly increases, never passes the end of the
\* buffer, and the loop makes at most buffer length / header size turns.
C10_WalkBounded ==
    /\ call.op = "from_bytes" =>
          /\ ~ret.panic
          /\ ret.ok =>
                /\ nlmsg_header_length <= ret.n
                /\ ret.n <= Declared(ret.msg.header)
                /\ Declared(ret.msg.header) <= Len(call.bytes)
    /\ call.op = "walk" =>
          /\ ret.stop # "panic"
          /\ ret.n <= Len(call.buffer)
          /\ Len(ret.spans) <= Len(call.buffer) \div nlmsg_header_length
          /\ \A i \in 1..Len(ret.spans) :
                /\ ret.spans[i].start + nlmsg_header_length <= ret.spans[i].end
                /\ ret.spans[i].end <= ret.spans[i].start + Declared(ret.spans[i].header)
                /\ ret.spans[i].end <= Len(call.buffer)
                /\ ret.spans[i].start = (IF i = 1 THEN 0 ELSE ret.spans[i - 1].end)

C10_Witness ==
    /\ call.op = "walk"
    /\ Len(call.buffer) = 48
    /\ Len(ret.spans) = 3
    /\ ret.stop = "fail"
    /\ ret.n = Len(call.buffer)

====
